---- MODULE Spec2Model ----
(***************************************************************************)
(* NetAPI-PANOS: the XML-API protocol client (xml_api.py) and the          *)
(* interface correlation engine (interfaces.py, called from panos.py).     *)
(*                                                                         *)
(* Python values are represented as follows.                              *)
(*   str used for names, paths and XML  : a sequence of one-character      *)
(*                                        strings, so that split and the   *)
(*                                        'in' substring test are computed *)
(*   other str (messages, ip, speed)    : a TLA+ string                    *)
(*   dict                               : a record; a key that is absent   *)
(*                                        is absent from the DOMAIN        *)
(*   None                               : NoneVal                          *)
(*   the value xmltodict leaves under a : a record [shape, items], see     *)
(*   repeated tag                         Collapse                         *)
(*   the outcome of a call              : [kind |-> "return", value |-> v] *)
(*                                        or [kind |-> "raise", exc |-> e] *)
(***************************************************************************)
EXTENDS Integers, Sequences, FiniteSets, TLC

VARIABLES
    call,           \* protocol client: the last call made on an XmlApi object
    ret,            \* protocol client: the outcome of that call
    pc,             \* interface_info: position in the build
    hardware_int,   \* Interfaces.hardware_int
    logical_int,    \* Interfaces.logical_int
    config,         \* __enter__: the value get_config returned
    int_config,     \* Interfaces.int_config
    log_int,        \* Interfaces.log_int
    raw_data,       \* Interfaces.raw_data['interfaces']
    descriptions,   \* Interfaces.descriptions['interface']
    int_list,       \* the value interfaces() returns: int_list['interfaces']
    exc,            \* the exception interface_info raised, "" when none
    sent            \* the requests issued to the appliance so far, in order

clientVars == <<call, ret>>
buildVars == <<pc, hardware_int, logical_int, config, int_config, log_int,
               raw_data, descriptions, int_list, exc, sent>>
vars == <<call, ret, pc, hardware_int, logical_int, config, int_config, log_int,
          raw_data, descriptions, int_list, exc, sent>>

(***************************************************************************)
(* Bounds                                                                  *)
(***************************************************************************)
\* longest command path, in segments
MaxSegs == 3

(***************************************************************************)
(* Python values                                                           *)
(***************************************************************************)
NoneVal == [none |-> TRUE]

Return(v) == [kind |-> "return", value |-> v]

Raise(e) == [kind |-> "raise", exc |-> e]

\* str.join over a list of character sequences, no separator
RECURSIVE Concat(_)
Concat(parts) ==
    IF parts = <<>> THEN <<>> ELSE Head(parts) \o Concat(Tail(parts))

\* reversed(list)
Reversed(s) == [i \in 1..Len(s) |-> s[Len(s) + 1 - i]]

\* str.split(sep) for a one-character separator: always at least one piece
RECURSIVE split(_, _)
split(s, sep) ==
    IF s = <<>> THEN << <<>> >>
    ELSE IF Head(s) = sep THEN << <<>> >> \o split(Tail(s), sep)
    ELSE LET r == split(Tail(s), sep)
         IN  << <<Head(s)>> \o Head(r) >> \o Tail(r)

\* the Python test  sub in s  on two str
Contains(s, sub) ==
    \E i \in 0..(Len(s) - Len(sub)) : SubSeq(s, i + 1, i + Len(sub)) = sub

(***************************************************************************)
(* Command encoder                                                         *)
(***************************************************************************)
\* f'<{entry}>'
OpenTag(entry) == <<"<">> \o entry \o <<">">>

\* f'</{entry}>'
CloseTag(entry) == <<"<", "/">> \o entry \o <<">">>

xpath_to_xml_no_reverse(xpath, argument) ==
    LET x_list == Tail(split(xpath, "/"))
    IN  Concat([i \in 1..Len(x_list) |-> OpenTag(x_list[i])])
            \o argument
            \o Concat([i \in 1..Len(x_list) |-> CloseTag(x_list[i])])

xpath_to_xml_opened_in_reverse(xpath, argument) ==
    LET x_list == Tail(split(xpath, "/"))
        rev == Reversed(x_list)
    IN  Concat([i \in 1..Len(rev) |-> OpenTag(rev[i])])
            \o argument
            \o Concat([i \in 1..Len(x_list) |-> CloseTag(x_list[i])])

xpath_to_xml_pop_only_empty(xpath, argument) ==
    LET pieces == split(xpath, "/")
        x_list == IF Head(pieces) = <<>> THEN Tail(pieces) ELSE pieces
        rev == Reversed(x_list)
    IN  Concat([i \in 1..Len(x_list) |-> OpenTag(x_list[i])])
            \o argument
            \o Concat([i \in 1..Len(rev) |-> CloseTag(rev[i])])

\* XmlApi.xpath_to_xml
xpath_to_xml(xpath, argument) ==
    LET x_list == Tail(split(xpath, "/"))          \* split, then pop(0)
        rev == Reversed(x_list)
    IN  Concat([i \in 1..Len(x_list) |-> OpenTag(x_list[i])])
            \o argument
            \o Concat([i \in 1..Len(rev) |-> CloseTag(rev[i])])

(***************************************************************************)
(* Response validator                                                      *)
(***************************************************************************)
err_codes_without_17 ==
    [c \in {"13", "16", "22"} |->
        CASE c = "13" -> "Object not found"
          [] c = "16" -> "Unauthorized"
          [] c = "22" -> "Session timed out"]

\* check_response: the err_codes table
err_codes ==
    [c \in {"400", "403", "1", "2", "3", "4", "5", "6", "7", "8", "10", "11",
            "12", "13", "14", "15", "16", "17", "18", "19", "20", "21", "22"} |->
        CASE c = "400" -> "Bad request"
          [] c = "403" -> "Forbidden"
          [] c = "1" -> "Unknown command"
          [] c \in {"2", "3", "4", "5", "11", "21"} -> "Internal error"
          [] c = "6" -> "Bad Xpath"
          [] c = "7" -> "Object not present"
          [] c = "8" -> "Object not unique"
          [] c = "10" -> "Reference count not zero"
          [] c = "12" -> "Invalid object"
          [] c = "13" -> "Object not found"
          [] c = "14" -> "Operation not possible"
          [] c = "15" -> "Operation denied"
          [] c = "16" -> "Unauthorized"
          [] c = "17" -> "Invalid command"
          [] c = "18" -> "Malformed command"
          [] c \in {"19", "20"} -> "Success"
          [] c = "22" -> "Session timed out"]

\* the three lines check_response prints for a failure
Printed(code, error) ==
    << "Error accessing the API",
       IF code \notin DOMAIN err_codes
       THEN "Unknown error code: " \o code
       ELSE "Error code: " \o code \o " (" \o err_codes[code] \o ")",
       "Error: " \o error >>

\* XmlApi.check_response: returns [value, printed] or raises
check_response(response) ==
    LET r == response.response
    IN  IF "status" \notin DOMAIN r THEN Raise("KeyError")
        ELSE IF r.status = "error" THEN
            IF "code" \notin DOMAIN r THEN Raise("KeyError")
            ELSE IF "msg" \in DOMAIN r
                THEN [kind |-> "return", value |-> FALSE,
                      printed |-> Printed(r.code, r.msg)]
            ELSE IF "result" \in DOMAIN r THEN
                IF r.result = NoneVal THEN Raise("TypeError")
                ELSE IF "msg" \notin DOMAIN r.result THEN Raise("KeyError")
                ELSE [kind |-> "return", value |-> FALSE,
                      printed |-> Printed(r.code, r.result.msg)]
            ELSE [kind |-> "return", value |-> FALSE,
                  printed |-> Printed(r.code, "Unknown error")]
        ELSE [kind |-> "return", value |-> TRUE, printed |-> <<>>]

(***************************************************************************)
(* Protocol client                                                         *)
(*                                                                         *)
(* What the network does with one request is the record net:               *)
(*   [transport |-> f]               requests.get raises the exception f   *)
(*   [transport |-> "ok", wellformed |-> b, doc |-> d]                     *)
(*                                   a reply arrives; its body parses to   *)
(*                                   the dict d when b, and is not         *)
(*                                   well-formed XML otherwise             *)
(***************************************************************************)
\* the exceptions of requests.exceptions that requests.get raises
TransportFaults ==
    {"ConnectTimeout", "ConnectionError", "SSLError", "ReadTimeout",
     "TooManyRedirects"}

\* issubclass, as the except clauses of op use it
IsSubclass(e, cls) ==
    \/ e = cls
    \/ cls = "Exception"
    \/ cls = "ConnectionError" /\ e \in {"ConnectTimeout", "SSLError"}
    \/ cls = "Timeout" /\ e \in {"ConnectTimeout", "ReadTimeout"}

\* requests.get(url, headers=self.headers, verify=True)
Request(type, cmd) == [type |-> type, cmd |-> cmd, verify |-> TRUE]

\* xmltodict.parse(response.text), then check_response, shared by
\* get_config and op; err is the dict returned for a rejected reply
ParseAndCheck(net, err) ==
    IF ~net.wellformed THEN Raise("ExpatError")
    ELSE LET chk == check_response(net.doc)
         IN  IF chk.kind = "raise" THEN Raise(chk.exc)
             ELSE IF chk.value THEN Return(net.doc)
             ELSE Return(err)

\* XmlApi.get_config
get_config(xpath, net) ==
    LET out == IF net.transport # "ok"
               THEN Raise(net.transport)       \* requests.get is not in a try
               ELSE ParseAndCheck(net, [error |-> "Error retrieving config"])
    IN  out @@ [sent |-> <<Request("config", xpath)>>]

op_unguarded(xpath, kwargs, net) ==
    LET arg == IF "arg" \in DOMAIN kwargs THEN kwargs.arg ELSE <<>>
        xml == xpath_to_xml(xpath, arg)
        out == IF net.transport # "ok"
               THEN Raise(net.transport)
               ELSE ParseAndCheck(net, [error |-> "Error retrieving config",
                                        command |-> xml])
    IN  out @@ [sent |-> <<Request("op", xml)>>]

op_retry(xpath, kwargs, net) ==
    LET arg == IF "arg" \in DOMAIN kwargs THEN kwargs.arg ELSE <<>>
        xml == xpath_to_xml(xpath, arg)
        out ==
            IF net.transport = "ok"
            THEN ParseAndCheck(net, [error |-> "Error retrieving config",
                                     command |-> xml])
            ELSE IF IsSubclass(net.transport, "ConnectTimeout")
            THEN Return([error |-> "Timeout while connecting to device",
                         command |-> xml])
            ELSE IF IsSubclass(net.transport, "ConnectionError")
            THEN Return([error |-> "Error connecting to device",
                         command |-> xml])
            ELSE Return([error |-> "Error while connecting: " \o net.transport,
                         command |-> xml])
    IN  out @@ [sent |-> IF net.transport = "ok"
                         THEN <<Request("op", xml)>>
                         ELSE <<Request("op", xml), Request("op", xml)>>]

op_verify_from_kwargs(xpath, kwargs, net) ==
    LET arg == IF "arg" \in DOMAIN kwargs THEN kwargs.arg ELSE <<>>
        verify == IF "verify" \in DOMAIN kwargs THEN kwargs.verify ELSE TRUE
        xml == xpath_to_xml(xpath, arg)
        out ==
            IF net.transport = "ok"
            THEN ParseAndCheck(net, [error |-> "Error retrieving config",
                                     command |-> xml])
            ELSE IF IsSubclass(net.transport, "ConnectTimeout")
            THEN Return([error |-> "Timeout while connecting to device",
                         command |-> xml])
            ELSE IF IsSubclass(net.transport, "ConnectionError")
            THEN Return([error |-> "Error connecting to device",
                         command |-> xml])
            ELSE Return([error |-> "Error while connecting: " \o net.transport,
                         command |-> xml])
    IN  out @@ [sent |-> <<[type |-> "op", cmd |-> xml, verify |-> verify]>>]

\* XmlApi.op; kwargs is a record that may hold the key arg
op(xpath, kwargs, net) ==
    LET arg == IF "arg" \in DOMAIN kwargs THEN kwargs.arg ELSE <<>>
        xml == xpath_to_xml(xpath, arg)
        out ==
            IF net.transport = "ok"
            THEN ParseAndCheck(net, [error |-> "Error retrieving config",
                                     command |-> xml])
            ELSE IF IsSubclass(net.transport, "ConnectTimeout")
            THEN Return([error |-> "Timeout while connecting to device",
                         command |-> xml])
            ELSE IF IsSubclass(net.transport, "ConnectionError")
            THEN Return([error |-> "Error connecting to device",
                         command |-> xml])
            ELSE Return([error |-> "Error while connecting: " \o net.transport,
                         command |-> xml])
    IN  out @@ [sent |-> <<Request("op", xml)>>]

(***************************************************************************)
(* Calls on the protocol client                                            *)
(***************************************************************************)
show == <<"s", "h", "o", "w">>

interface == <<"i", "n", "t", "e", "r", "f", "a", "c", "e">>

system == <<"s", "y", "s", "t", "e", "m">>

info == <<"i", "n", "f", "o">>

ae1 == <<"a", "e", "1">>

\* the segments command paths are built from; the empty segment is what
\* a doubled or trailing '/' leaves
SegNames == {show, interface, system, info, <<>>}

\* the command paths of at most MaxSegs segments
CommandPaths == UNION {[1..n -> SegNames] : n \in 1..MaxSegs}

\* the path string callers pass for a command path: '/seg1/.../segN'
RECURSIVE PathString(_)
PathString(segs) ==
    IF segs = <<>> THEN <<>> ELSE <<"/">> \o Head(segs) \o PathString(Tail(segs))

\* the same path written without its leading '/'
BarePathString(segs) == Tail(PathString(segs))

\* arguments: none, an interface name, text that is not XML-safe
Arguments == {<<>>, ae1, <<"<", "x", ">">>}

\* the command paths passed to op and get_config, as '/seg1/.../segN';
\* the last one has an empty segment: '/show//info'
ClientPaths == {<<show, interface>>, <<show, system, info>>, <<show, <<>>, info>>}

\* keyword arguments of op; **kwargs accepts any keyword, verify among them
Kwargs ==
    {<<>>} \cup {[arg |-> a] : a \in Arguments}
        \cup {[arg |-> ae1, verify |-> FALSE]}

\* a key that may be absent: the empty dict, or the dict holding it
Optional(key, values) == {<<>>} \cup {key :> v : v \in values}

\* the parsed replies the validator is given
Responses ==
    {[response |-> s @@ c @@ m @@ r] :
        s \in Optional("status", {"success", "error"}),
        c \in Optional("code", {"17", "16", "22", "13", "999"}),
        m \in Optional("msg", {"top"}),
        r \in Optional("result", {NoneVal, [msg |-> "nested"], [data |-> "x"]})}

\* what the network may do with a request of the protocol client
ClientNets ==
    {[transport |-> f] : f \in TransportFaults}
        \cup {[transport |-> "ok", wellformed |-> FALSE, doc |-> NoneVal]}
        \cup {[transport |-> "ok", wellformed |-> TRUE, doc |-> d] : d \in Responses}

\* An XmlApi object holds only host and headers, both set by the constructor
\* and never written again, so a call starts from the constructed object
\* whatever was called before: each behaviour makes one call.
Idle == call.fn = "none"

\* a call of xpath_to_xml
CallXpathToXml ==
    /\ Idle
    /\ \E segs \in CommandPaths, leading \in BOOLEAN, argument \in Arguments :
        LET xpath == IF leading THEN PathString(segs) ELSE BarePathString(segs)
        IN  /\ call' = [fn |-> "xpath_to_xml", segs |-> segs, leading |-> leading,
                        xpath |-> xpath, argument |-> argument]
            /\ ret' = Return(xpath_to_xml(xpath, argument))
    /\ UNCHANGED buildVars

\* a call of check_response
CallCheckResponse ==
    /\ Idle
    /\ \E response \in Responses :
        /\ call' = [fn |-> "check_response", response |-> response]
        /\ ret' = check_response(response)
    /\ UNCHANGED buildVars

\* a call of get_config
CallGetConfig ==
    /\ Idle
    /\ \E segs \in ClientPaths, net \in ClientNets :
        /\ call' = [fn |-> "get_config", segs |-> segs, net |-> net]
        /\ ret' = get_config(PathString(segs), net)
    /\ UNCHANGED buildVars

\* a call of op
CallOp ==
    /\ Idle
    /\ \E segs \in ClientPaths, kwargs \in Kwargs, net \in ClientNets :
        /\ call' = [fn |-> "op", segs |-> segs, kwargs |-> kwargs, net |-> net]
        /\ ret' = op(PathString(segs), kwargs, net)
    /\ UNCHANGED buildVars

(***************************************************************************)
(* Collections as xmltodict leaves them                                    *)
(***************************************************************************)
\* What xmltodict.parse leaves for an element that holds the <entry>
\* children seq: None for no child, {'entry': dict} for one child,
\* {'entry': list} for two or more.  A dict or list is the record
\* [shape, items]; items holds the entries either way.
Container(seq) ==
    IF seq = <<>> THEN NoneVal
    ELSE [entry |-> [shape |-> IF Len(seq) = 1 THEN "dict" ELSE "list",
                     items |-> seq]]

Normalize_always_wraps(x) ==
    IF x = NoneVal THEN <<NoneVal>>
    ELSE IF x.shape # "list" THEN <<x.items[1]>> ELSE <<x.items>>

\* if type(x) is not list: x = [x]
\* None is not a list either, so it is wrapped like a dict
Normalize(x) ==
    IF x = NoneVal THEN <<NoneVal>>
    ELSE IF x.shape # "list" THEN <<x.items[1]>> ELSE x.items

\* longest list handed to the normalizing statement
MaxItems == 3

\* a Python list, in the record form of Container
PyList(seq) == [shape |-> "list", items |-> seq]

\* a Python dict, in the record form of Container
PyDict(d) == [shape |-> "dict", items |-> <<d>>]

\* the objects the collections hold
Objects ==
    {[name |-> <<"a", "e", "1", ".", "1">>, comment |-> "a"],
     [name |-> <<"a", "e", "1", ".", "2">>],
     [name |-> <<"v", "l", "a", "n">>, comment |-> "v"],
     [name |-> <<"t", "u", "n", "n", "e", "l", ".", "1">>, comment |-> "t"]}

\* the values the normalizing statement is given: None, one bare dict, a list
Collections ==
    {NoneVal} \cup {PyDict(d) : d \in Objects}
        \cup {PyList(seq) : seq \in UNION {[1..n -> Objects] : n \in 0..MaxItems}}

\* the statement runs on a value
CallNormalize ==
    /\ call.fn = "none"
    /\ \E x \in Collections :
        /\ call' = [fn |-> "normalize", x |-> x]
        /\ ret' = Return(Normalize(x))
    /\ UNCHANGED buildVars

\* the statement runs again, on the list it left
CallNormalizeAgain ==
    /\ call.fn = "normalize"
    /\ call' = [fn |-> "normalize_again", x |-> call.x, first |-> ret.value]
    /\ ret' = Return(Normalize(PyList(ret.value)))
    /\ UNCHANGED buildVars

(***************************************************************************)
(* Interface correlation engine                                            *)
(***************************************************************************)
ethernet == <<"e", "t", "h", "e", "r", "n", "e", "t">>

loopback == <<"l", "o", "o", "p", "b", "a", "c", "k">>

tunnel == <<"t", "u", "n", "n", "e", "l">>

vlan == <<"v", "l", "a", "n">>

ae == <<"a", "e">>

\* phy_description: the loop over one subtree; there is no break, so the
\* last entry with the name and a comment decides
RECURSIVE ScanComment(_, _, _)
ScanComment(items, name, description) ==
    IF items = <<>> THEN description
    ELSE ScanComment(Tail(items), name,
            IF Head(items).name = name /\ "comment" \in DOMAIN Head(items)
            THEN Head(items).comment
            ELSE description)

\* for item in x: item['@name'] ...   on a value that was not normalized:
\* iterating a dict yields its keys, and subscripting a str with '@name'
\* raises TypeError
DirectScan(x, name) ==
    IF x.shape = "list" THEN Return(ScanComment(x.items, name, ""))
    ELSE Raise("TypeError")

\* Interfaces.phy_description
phy_description(iface, cfg) ==
    IF Contains(iface.name, ethernet) THEN
        IF cfg.ethernet = NoneVal THEN Raise("TypeError")
        ELSE DirectScan(cfg.ethernet.entry, iface.name)
    ELSE IF Contains(iface.name, loopback) THEN
        IF cfg.loopback.units = NoneVal THEN Raise("TypeError")
        ELSE DirectScan(cfg.loopback.units.entry, iface.name)
    ELSE IF Contains(iface.name, tunnel) THEN
        IF cfg.tunnel.units = NoneVal THEN Raise("TypeError")
        ELSE DirectScan(cfg.tunnel.units.entry, iface.name)
    ELSE IF Contains(iface.name, vlan) THEN
        IF cfg.vlan.units # NoneVal
        THEN Return(ScanComment(Normalize(cfg.vlan.units.entry), iface.name, ""))
        ELSE Return("")
    ELSE IF Contains(iface.name, ae) THEN
        IF cfg.aggregate_ethernet = NoneVal THEN Raise("TypeError")
        ELSE Return(ScanComment(Normalize(cfg.aggregate_ethernet.entry),
                                iface.name, ""))
    ELSE Return("")

\* sub_description: one entry of descriptions['interface'] per unit
UnitDescs(units) ==
    [i \in 1..Len(units) |->
        [name |-> units[i].name,
         description |-> IF "comment" \in DOMAIN units[i]
                         THEN units[i].comment ELSE ""]]

\* sub_description: if '.' in unit['@name']
RECURSIVE Dotted(_)
Dotted(units) ==
    IF units = <<>> THEN <<>>
    ELSE IF Contains(Head(units).name, <<".">>)
        THEN <<Head(units)>> \o Dotted(Tail(units))
        ELSE Dotted(Tail(units))

\* sub_description: 'layer2' in e and 'units' in e['layer2'] holds
HasUnits(e, layer) == layer \in DOMAIN e /\ "units" \in DOMAIN e[layer]

\* sub_description: the statements for one layer of one entry raise
\* ('units' in None, or None['entry'])
LayerRaises(e, layer) ==
    /\ layer \in DOMAIN e
    /\ \/ e[layer] = NoneVal
       \/ "units" \in DOMAIN e[layer] /\ e[layer].units = NoneVal

\* sub_description: the descriptions one layer of one entry adds
LayerDescs(e, layer) ==
    IF HasUnits(e, layer) THEN UnitDescs(Normalize(e[layer].units.entry))
    ELSE <<>>

\* sub_description: the descriptions of an ethernet or aggregate subtree
RECURSIVE EntriesDescs(_)
EntriesDescs(entries) ==
    IF entries = <<>> THEN <<>>
    ELSE LayerDescs(Head(entries), "layer2") \o LayerDescs(Head(entries), "layer3")
            \o EntriesDescs(Tail(entries))

EntriesRaise(entries) ==
    \E i \in 1..Len(entries) :
        LayerRaises(entries[i], "layer2") \/ LayerRaises(entries[i], "layer3")

sub_description_vlan_unguarded(cfg) ==
    IF \/ cfg.ethernet = NoneVal
       \/ cfg.loopback.units = NoneVal
       \/ cfg.vlan.units = NoneVal
       \/ cfg.tunnel.units = NoneVal
       \/ cfg.aggregate_ethernet = NoneVal
    THEN Raise("TypeError")
    ELSE IF \/ EntriesRaise(Normalize(cfg.ethernet.entry))
            \/ EntriesRaise(Normalize(cfg.aggregate_ethernet.entry))
    THEN Raise("TypeError")
    ELSE Return(
            EntriesDescs(Normalize(cfg.ethernet.entry))
         \o UnitDescs(Dotted(Normalize(cfg.loopback.units.entry)))
         \o UnitDescs(Dotted(Normalize(cfg.vlan.units.entry)))
         \o UnitDescs(Dotted(Normalize(cfg.tunnel.units.entry)))
         \o EntriesDescs(Normalize(cfg.aggregate_ethernet.entry)))

\* Interfaces.sub_description: the value of descriptions['interface']
sub_description(cfg) ==
    IF \/ cfg.ethernet = NoneVal
       \/ cfg.loopback.units = NoneVal
       \/ cfg.tunnel.units = NoneVal
       \/ cfg.aggregate_ethernet = NoneVal
    THEN Raise("TypeError")
    ELSE IF \/ EntriesRaise(Normalize(cfg.ethernet.entry))
            \/ EntriesRaise(Normalize(cfg.aggregate_ethernet.entry))
    THEN Raise("TypeError")
    ELSE Return(
            EntriesDescs(Normalize(cfg.ethernet.entry))
         \o UnitDescs(Dotted(Normalize(cfg.loopback.units.entry)))
         \o (IF cfg.vlan.units # NoneVal
             THEN UnitDescs(Dotted(Normalize(cfg.vlan.units.entry)))
             ELSE <<>>)
         \o UnitDescs(Dotted(Normalize(cfg.tunnel.units.entry)))
         \o EntriesDescs(Normalize(cfg.aggregate_ethernet.entry)))

FirstNamed_last_wins(logs, name) ==
    IF \E i \in 1..Len(logs) : logs[i].name = name
    THEN LET i == CHOOSE k \in 1..Len(logs) :
                    /\ logs[k].name = name
                    /\ \A j \in (k + 1)..Len(logs) : logs[j].name # name
         IN  [log |-> logs[i]]
    ELSE <<>>

\* raw_interfaces: the first entry of log_int with the name, as the key log
FirstNamed(logs, name) ==
    IF \E i \in 1..Len(logs) : logs[i].name = name
    THEN LET i == CHOOSE k \in 1..Len(logs) :
                    /\ logs[k].name = name
                    /\ \A j \in 1..(k - 1) : logs[j].name # name
         IN  [log |-> logs[i]]
    ELSE <<>>

\* raw_interfaces: the entry appended for one physical interface
RawEntry(iface, logs, detail, description) ==
    [phy |-> iface, detail |-> detail, description |-> description]
        @@ FirstNamed(logs, iface.name)

\* sub_interfaces: iface['sub'].append(sub), the list created when absent
AddSub(iface, sub) ==
    IF "sub" \in DOMAIN iface
    THEN [iface EXCEPT !.sub = Append(@, sub)]
    ELSE iface @@ [sub |-> <<sub>>]

AttachSub_no_break(raw, sub) ==
    LET parent == Head(split(sub.name, "."))
    IN  IF ~Contains(sub.name, <<".">>) THEN raw
        ELSE [i \in 1..Len(raw) |->
                IF raw[i].phy.name = parent THEN AddSub(raw[i], sub) ELSE raw[i]]

AttachSub_keep_unmatched(raw, sub) ==
    LET parent == Head(split(sub.name, "."))
        hits == {i \in 1..Len(raw) : raw[i].phy.name = parent}
    IN  IF ~Contains(sub.name, <<".">>) THEN raw
        ELSE LET i == IF hits = {} THEN 1
                      ELSE CHOOSE k \in hits : \A j \in hits : k <= j
             IN  [raw EXCEPT ![i] = AddSub(@, sub)]

\* sub_interfaces: the loop over raw_data['interfaces'] for one logical entry
AttachSub(raw, sub) ==
    LET parent == Head(split(sub.name, "."))
        hits == {i \in 1..Len(raw) : raw[i].phy.name = parent}
    IN  IF ~Contains(sub.name, <<".">>) \/ hits = {} THEN raw
        ELSE LET i == CHOOSE k \in hits : \A j \in hits : k <= j
             IN  [raw EXCEPT ![i] = AddSub(@, sub)]

RECURSIVE AttachAll(_, _)
AttachAll(raw, logs) ==
    IF logs = <<>> THEN raw
    ELSE AttachAll(AttachSub(raw, Head(logs)), Tail(logs))

\* Interfaces.sub_interfaces: the new raw_data['interfaces']
sub_interfaces(logs, raw) ==
    IF logs.shape # "list" THEN Raise("TypeError")    \* sub is a key, a str
    ELSE Return(AttachAll(raw, logs.items))

\* interfaces(): the description of a subinterface, the key absent when no
\* entry of descriptions has its name
SubDescription(descs, name) ==
    IF \E i \in 1..Len(descs) : descs[i].name = name
    THEN LET i == CHOOSE k \in 1..Len(descs) :
                    /\ descs[k].name = name
                    /\ \A j \in 1..(k - 1) : descs[j].name # name
         IN  [description |-> descs[i].description]
    ELSE <<>>

SubEntry_address_always(sub_iface, descs) ==
    [subinterface |-> sub_iface.name,
     family |-> IF sub_iface.ip = "N/A" THEN "Ethernet" ELSE "inet",
     address |-> sub_iface.ip]
        @@ SubDescription(descs, sub_iface.name)

\* interfaces(): one entry of a parent's subinterfaces
SubEntry(sub_iface, descs) ==
    (IF sub_iface.ip = "N/A"
     THEN [subinterface |-> sub_iface.name, family |-> "Ethernet"]
     ELSE [subinterface |-> sub_iface.name, family |-> "inet",
           address |-> sub_iface.ip])
        @@ SubDescription(descs, sub_iface.name)

Family_inet_whenever_paired(iface) ==
    IF "log" \notin DOMAIN iface THEN [family |-> "None"]
    ELSE [family |-> "inet", address |-> iface.log.ip]

\* interfaces(): family and address of a parent
Family(iface) ==
    IF "log" \notin DOMAIN iface THEN [family |-> "None"]
    ELSE IF iface.log.ip = "N/A" THEN [family |-> "Ethernet"]
    ELSE [family |-> "inet", address |-> iface.log.ip]

Speed_always_raw(phy) == phy.speed

\* interfaces(): speed of a parent
Speed(phy) == IF phy.state = "down" THEN "None" ELSE phy.speed

\* interfaces(): the entry of one parent
Entry(iface, descs) ==
    [name |-> iface.phy.name,
     mac |-> iface.phy.mac,
     description |-> iface.description,
     speed |-> Speed(iface.phy),
     counters |-> [bps_in |-> "", bps_out |-> "", pps_in |-> "", pps_out |-> ""],
     subinterfaces |->
        IF "sub" \in DOMAIN iface
        THEN [k \in 1..Len(iface.sub) |-> SubEntry(iface.sub[k], descs)]
        ELSE <<>>,
     poe |-> [admin |-> "N/A", operational |-> "N/A", max |-> "N/A",
              used |-> "N/A"]]
        @@ Family(iface)

\* interfaces(): int_list['interfaces'] from the raw data
Format(raw, descs) == [i \in 1..Len(raw) |-> Entry(raw[i], descs)]

\* interfaces() after raw_interfaces(): sub_interfaces(), sub_description()
\* and the formatting loop
FinishInterfaces(raw, logs, cfg) ==
    LET subs == sub_interfaces(logs, raw)
        descs == sub_description(cfg)
    IN  IF subs.kind = "raise" THEN subs
        ELSE IF descs.kind = "raise" THEN descs
        ELSE Return([raw |-> subs.value, descriptions |-> descs.value,
                     int_list |-> Format(subs.value, descs.value)])

(***************************************************************************)
(* interface_info: one topology build                                      *)
(***************************************************************************)
hardware == <<"h", "a", "r", "d", "w", "a", "r", "e">>

logical == <<"l", "o", "g", "i", "c", "a", "l">>

\* '/config/devices/entry/network/interface'
ConfigXpath ==
    PathString(<< <<"c", "o", "n", "f", "i", "g">>,
                  <<"d", "e", "v", "i", "c", "e", "s">>,
                  <<"e", "n", "t", "r", "y">>,
                  <<"n", "e", "t", "w", "o", "r", "k">>,
                  interface >>)

\* d['response']['result'][key] on a dict the client returned
ResultField(d, key) ==
    IF "response" \notin DOMAIN d THEN Raise("KeyError")
    ELSE IF "result" \notin DOMAIN d.response THEN Raise("KeyError")
    ELSE IF d.response.result = NoneVal THEN Raise("TypeError")
    ELSE IF key \notin DOMAIN d.response.result THEN Raise("KeyError")
    ELSE Return(d.response.result[key])

\* d['response']['result'][key]['entry']
ResultEntry(d, key) ==
    LET f == ResultField(d, key)
    IN  IF f.kind = "raise" THEN f
        ELSE IF f.value = NoneVal THEN Raise("TypeError")
        ELSE Return(f.value.entry)

\* the exception leaves interface_info
Raised(e) == pc' = "raised" /\ exc' = e

\* __enter__: self.hardware_int = conn.op('/show/interface', arg='hardware')
EnterHardware(nets) ==
    /\ pc = "start"
    /\ \E net \in nets :
        LET out == op(PathString(<<show, interface>>), [arg |-> hardware], net)
        IN  /\ sent' = sent \o out.sent
            /\ IF out.kind = "raise"
               THEN Raised(out.exc) /\ UNCHANGED hardware_int
               ELSE pc' = "enter_logical" /\ hardware_int' = out.value
                    /\ UNCHANGED exc
    /\ UNCHANGED <<call, ret, logical_int, config, int_config, log_int, raw_data,
                   descriptions, int_list>>

\* __enter__: self.logical_int = conn.op('/show/interface', arg='logical')
EnterLogical(nets) ==
    /\ pc = "enter_logical"
    /\ \E net \in nets :
        LET out == op(PathString(<<show, interface>>), [arg |-> logical], net)
        IN  /\ sent' = sent \o out.sent
            /\ IF out.kind = "raise"
               THEN Raised(out.exc) /\ UNCHANGED logical_int
               ELSE pc' = "enter_config" /\ logical_int' = out.value
                    /\ UNCHANGED exc
    /\ UNCHANGED <<call, ret, hardware_int, config, int_config, log_int, raw_data,
                   descriptions, int_list>>

\* __enter__: config = conn.get_config(...), self.int_config, self.log_int
EnterConfig(nets) ==
    /\ pc = "enter_config"
    /\ \E net \in nets :
        LET out == get_config(ConfigXpath, net)
            cfg == ResultField(out.value, "interface")
            logs == ResultEntry(logical_int, "ifnet")
        IN  /\ sent' = sent \o out.sent
            /\ IF out.kind = "raise"
               THEN Raised(out.exc) /\ UNCHANGED <<config, int_config, log_int>>
               ELSE IF cfg.kind = "raise"
               THEN Raised(cfg.exc) /\ config' = out.value
                    /\ UNCHANGED <<int_config, log_int>>
               ELSE IF logs.kind = "raise"
               THEN Raised(logs.exc) /\ config' = out.value
                    /\ int_config' = cfg.value /\ UNCHANGED log_int
               ELSE pc' = "entered" /\ config' = out.value
                    /\ int_config' = cfg.value
                    /\ log_int' = logs.value /\ UNCHANGED exc
    /\ UNCHANGED <<call, ret, hardware_int, logical_int, raw_data,
                   descriptions, int_list>>

\* raw_interfaces: phy_int = self.hardware_int['response']['result']['hw']['entry']
phy_int == ResultEntry(hardware_int, "hw")

\* interfaces() is called: raw_interfaces() up to the first detail fetch.
\* When phy_int is one bare dict the loop variable is a key, a str, and
\* the first statement that subscripts it or an entry of log_int raises.
BeginInterfaces ==
    /\ pc = "entered"
    /\ IF phy_int.kind = "raise" THEN Raised(phy_int.exc) /\ UNCHANGED raw_data
       ELSE IF phy_int.value.shape # "list" \/ log_int.shape # "list"
       THEN Raised("TypeError") /\ UNCHANGED raw_data
       ELSE pc' = "raw" /\ raw_data' = <<>> /\ UNCHANGED exc
    /\ UNCHANGED <<call, ret, hardware_int, logical_int, config, int_config, log_int,
                   descriptions, int_list, sent>>

RawInterfacesStep_last_first(nets) ==
    /\ pc = "raw"
    /\ Len(raw_data) < Len(phy_int.value.items)
    /\ \E net \in nets :
        LET iface == phy_int.value.items[Len(phy_int.value.items) - Len(raw_data)]
            out == op(PathString(<<show, interface>>), [arg |-> iface.name], net)
            desc == phy_description(iface, int_config)
        IN  /\ sent' = sent \o out.sent
            /\ IF out.kind = "raise"
               THEN Raised(out.exc) /\ UNCHANGED raw_data
               ELSE IF desc.kind = "raise"
               THEN Raised(desc.exc) /\ UNCHANGED raw_data
               ELSE /\ raw_data' = Append(raw_data,
                            RawEntry(iface, log_int.items, out.value, desc.value))
                    /\ UNCHANGED <<pc, exc>>
    /\ UNCHANGED <<call, ret, hardware_int, logical_int, config, int_config,
                   log_int, descriptions, int_list>>

\* raw_interfaces: one iteration of the loop over phy_int
RawInterfacesStep(nets) ==
    /\ pc = "raw"
    /\ Len(raw_data) < Len(phy_int.value.items)
    /\ \E net \in nets :
        LET iface == phy_int.value.items[Len(raw_data) + 1]
            out == op(PathString(<<show, interface>>), [arg |-> iface.name], net)
            desc == phy_description(iface, int_config)
        IN  /\ sent' = sent \o out.sent
            /\ IF out.kind = "raise"
               THEN Raised(out.exc) /\ UNCHANGED raw_data
               ELSE IF desc.kind = "raise"
               THEN Raised(desc.exc) /\ UNCHANGED raw_data
               ELSE /\ raw_data' = Append(raw_data,
                            RawEntry(iface, log_int.items, out.value, desc.value))
                    /\ UNCHANGED <<pc, exc>>
    /\ UNCHANGED <<call, ret, hardware_int, logical_int, config, int_config, log_int,
                   descriptions, int_list>>

\* interfaces() after the last detail fetch, up to return int_list
FinishBuild ==
    /\ pc = "raw"
    /\ Len(raw_data) = Len(phy_int.value.items)
    /\ LET out == FinishInterfaces(raw_data, log_int, int_config)
       IN  IF out.kind = "raise"
           THEN Raised(out.exc) /\ UNCHANGED <<raw_data, descriptions, int_list>>
           ELSE /\ pc' = "done"
                /\ raw_data' = out.value.raw
                /\ descriptions' = out.value.descriptions
                /\ int_list' = out.value.int_list
                /\ UNCHANGED exc
    /\ UNCHANGED <<call, ret, hardware_int, logical_int, config, int_config, log_int,
                   sent>>

\* most calls of interfaces() on one entered object
MaxCalls == 2

InterfacesAgain_keeps_raw_data ==
    /\ pc = "done"
    /\ Len(sent) + Len(phy_int.value.items)
            <= 3 + MaxCalls * Len(phy_int.value.items)
    /\ pc' = "raw"
    /\ UNCHANGED <<call, ret, hardware_int, logical_int, config, int_config,
                   log_int, raw_data, descriptions, int_list, exc, sent>>

\* interfaces() is called again on the entered object: raw_interfaces()
\* starts from a new empty list; hardware_int, logical_int, int_config and
\* log_int are the attributes __enter__ set.  The guard ends the behaviour
\* after MaxCalls calls, each of which sends one request per parent.
InterfacesAgain ==
    /\ pc = "done"
    /\ Len(sent) + Len(phy_int.value.items)
            <= 3 + MaxCalls * Len(phy_int.value.items)
    /\ pc' = "raw"
    /\ raw_data' = <<>>
    /\ UNCHANGED <<call, ret, hardware_int, logical_int, config, int_config,
                   log_int, descriptions, int_list, exc, sent>>

\* one build, the appliance answering the four kinds of fetch from the
\* given sets
Build(hw, log, cfg, detail) ==
    \/ EnterHardware(hw)
    \/ EnterLogical(log)
    \/ EnterConfig(cfg)
    \/ BeginInterfaces
    \/ RawInterfacesStep(detail)
    \/ FinishBuild

(***************************************************************************)
(* What the appliance holds                                                *)
(***************************************************************************)
\* longest physical interface list
MaxPhys == 2

\* longest logical interface list
MaxLog == 2

\* a reply that arrives, parses, and has status success
Reply(result) ==
    [transport |-> "ok", wellformed |-> TRUE,
     doc |-> [response |-> [status |-> "success", result |-> result]]]

ae11 == <<"a", "e", "1", "1">>

Sub(parent, unit) == parent \o <<".">> \o unit

\* one <entry> of show interface hardware
Phy(name, state, speed) ==
    [name |-> name, mac |-> "00:1b:17:00:01:10", state |-> state, speed |-> speed]

\* one <entry> of show interface logical
Log(name, ip) == [name |-> name, ip |-> ip]

\* one <entry> of a units element of the configuration
Unit(name, comment) == [name |-> name, comment |-> comment]

PhyRecords ==
    {Phy(ae1, "up", "1000"), Phy(ae1, "down", "10000"),
     Phy(ae11, "up", "10000"), Phy(ae11, "down", "1000")}

LogRecords ==
    {Log(ae1, "N/A"), Log(ae1, "10.0.0.1"), Log(ae11, "10.0.5.1"),
     Log(Sub(ae1, <<"1">>), "10.0.1.1"),
     Log(Sub(ae11, <<"1">>), "N/A"),
     Log(Sub(tunnel, <<"1">>), "10.0.2.1")}

\* replies to show interface hardware
HardwareNets ==
    {Reply([hw |-> Container(seq)]) :
        seq \in UNION {[1..n -> PhyRecords] : n \in 0..MaxPhys}}

\* replies to show interface logical
LogicalNets ==
    {Reply([ifnet |-> Container(seq)]) :
        seq \in UNION {[1..n -> LogRecords] : n \in 0..MaxLog}}

\* a configuration in which every subtree holds two or more entries
ListConfig ==
    [ethernet |-> Container(<<
        [name |-> ethernet \o <<"1">>, comment |-> "wan",
         layer3 |-> [units |-> Container(<<
            Unit(Sub(ethernet \o <<"1">>, <<"1">>), "uplink")>>)]],
        [name |-> ethernet \o <<"2">>, layer2 |-> [lldp |-> "enable"]]>>),
     loopback |-> [units |-> Container(<<
        Unit(loopback, "lo"), Unit(Sub(loopback, <<"1">>), "lo1")>>)],
     vlan |-> [units |-> Container(<<
        Unit(vlan, "v"), Unit(Sub(vlan, <<"1">>), "v1")>>)],
     tunnel |-> [units |-> Container(<<
        Unit(tunnel, "t"), Unit(Sub(tunnel, <<"1">>), "t1")>>)],
     aggregate_ethernet |-> Container(<<
        [name |-> ae1, comment |-> "lag1",
         layer3 |-> [units |-> Container(<<
            Unit(Sub(ae1, <<"1">>), "ae1 unit 1"),
            [name |-> Sub(ae1, <<"2">>)]>>)]],
        [name |-> ae11,
         layer2 |-> [units |-> Container(<<
            [name |-> Sub(ae11, <<"1">>)]>>)]]>>)]

\* replies to the configuration read
ConfigNets == {Reply([interface |-> ListConfig])}

\* replies to show interface <name>
DetailNets == {Reply([ifnet |-> [counters |-> NoneVal]])}

(***************************************************************************)
(* Configurations of every shape                                           *)
(***************************************************************************)
ethernet1 == ethernet \o <<"1">>

\* a name that holds both 'ae' and 'ethernet'
aethernet1 == <<"a">> \o ethernet \o <<"1">>

\* a name that holds none of the five substrings
eth1 == <<"e", "t", "h", "1">>

\* the <entry> children of network/interface/ethernet: none, one, several
EthernetChoices ==
    LET e1 == [name |-> ethernet1, comment |-> "wan",
               layer3 |-> [units |-> Container(<<
                    Unit(Sub(ethernet1, <<"1">>), "uplink1"),
                    [name |-> Sub(ethernet1, <<"2">>)]>>)]]
        e2 == [name |-> aethernet1, comment |-> "both-ethernet",
               layer2 |-> [lldp |-> "enable"]]
        e3 == [name |-> eth1,
               layer3 |-> [units |-> Container(<<
                    Unit(Sub(eth1, <<"1", "0">>), "uplink")>>)]]
    IN  {<<>>, <<e1>>, <<e1, e2, e3>>}

\* the <entry> children of the units of loopback, vlan or tunnel
UnitChoices(base) ==
    {<<>>, <<Unit(base, "base")>>,
     <<[name |-> base], Unit(Sub(base, <<"1">>), "unit1")>>}

\* the <entry> children of network/interface/aggregate-ethernet
AggregateChoices ==
    LET a1 == [name |-> ae1, comment |-> "lag1",
               layer3 |-> [units |-> Container(<<
                    Unit(Sub(ae1, <<"1">>), "lag1 unit1"),
                    [name |-> Sub(ae1, <<"2">>)]>>)]]
        a2 == [name |-> aethernet1, comment |-> "both-aggregate"]
    IN  {<<>>, <<a1>>, <<a1, a2>>}

Configs ==
    {[ethernet |-> Container(e),
      loopback |-> [units |-> Container(l)],
      vlan |-> [units |-> Container(v)],
      tunnel |-> [units |-> Container(t)],
      aggregate_ethernet |-> Container(a)] :
        e \in EthernetChoices, l \in UnitChoices(loopback),
        v \in UnitChoices(vlan), t \in UnitChoices(tunnel),
        a \in AggregateChoices}

\* replies to the configuration read, every shape of every subtree
AnyConfigNets == {Reply([interface |-> c]) : c \in Configs}

\* physical lists of an interface of each name category beside eth1
CategoryHardwareNets ==
    {Reply([hw |-> Container(<<Phy(n, "up", "1000"), Phy(eth1, "up", "1000")>>)]) :
        n \in {ethernet1, loopback, tunnel, vlan, ae1, aethernet1, eth1}}

\* logical lists of two subinterfaces
SubinterfaceLogicalNets ==
    {Reply([ifnet |-> Container(<<a, b>>)]) :
        a \in {Log(Sub(ethernet1, <<"1">>), "10.0.1.1"),
               Log(Sub(eth1, <<"1", "0">>), "10.0.0.1")},
        b \in {Log(Sub(ae1, <<"1">>), "N/A"),
               Log(Sub(ae1, <<"2">>), "10.0.3.1"),
               Log(Sub(loopback, <<"1">>), "10.0.4.1")}}

(***************************************************************************)
(* Fetches that fail                                                       *)
(***************************************************************************)
\* a reply that arrives and parses, with status error
Rejected(attrs) ==
    [transport |-> "ok", wellformed |-> TRUE,
     doc |-> [response |-> [status |-> "error"] @@ attrs]]

\* a reply whose body is not well-formed XML
Malformed == [transport |-> "ok", wellformed |-> FALSE, doc |-> NoneVal]

\* requests.get raises, or the appliance rejects the request with a code
\* and a message
FailedNets ==
    {[transport |-> f] : f \in TransportFaults}
        \cup {Rejected([code |-> "17", msg |-> "top"]),
              Rejected([code |-> "999", result |-> [msg |-> "nested"]])}

\* replies the client cannot read: a body that does not parse, an error
\* reply without a code
UnreadableNets == {Malformed, Rejected([msg |-> "top"])}

\* show interface hardware: two lists of distinct names, or a failure
FaultHardwareNets ==
    {Reply([hw |-> Container(<<Phy(ae1, "up", "1000"),
                               Phy(ae11, "down", "1000")>>)]),
     Reply([hw |-> Container(<<Phy(ae11, "up", "10000"),
                               Phy(tunnel, "up", "1000"),
                               Phy(ae1, "up", "1000")>>)])}
        \cup FailedNets \cup UnreadableNets

\* show interface logical: one list, or a failure
FaultLogicalNets ==
    {Reply([ifnet |-> Container(<<Log(ae1, "10.0.0.1"),
                                  Log(Sub(ae1, <<"1">>), "10.0.1.1")>>)])}
        \cup FailedNets \cup UnreadableNets

\* the configuration read: the configuration, or a failure
FaultConfigNets == ConfigNets \cup FailedNets \cup UnreadableNets

\* show interface <name>: the detail, or a fetch op answers with an error dict
FaultDetailNets == DetailNets \cup FailedNets

(***************************************************************************)
(* interfaces() called more than once                                      *)
(***************************************************************************)
\* show interface hardware: distinct names, and one name twice
AgainHardwareNets ==
    {Reply([hw |-> Container(<<Phy(ae1, "up", "1000"),
                               Phy(ae11, "down", "1000")>>)]),
     Reply([hw |-> Container(<<Phy(ae1, "up", "1000"),
                               Phy(ae1, "down", "10000")>>)]),
     Reply([hw |-> Container(<<Phy(ae11, "up", "10000"),
                               Phy(ae1, "up", "1000")>>)])}

\* show interface logical: parents and subinterfaces
AgainLogicalNets ==
    {Reply([ifnet |-> Container(<<Log(ae1, "10.0.0.1"),
                                  Log(Sub(ae1, <<"1">>), "10.0.1.1")>>)]),
     Reply([ifnet |-> Container(<<Log(Sub(ae1, <<"1">>), "10.0.1.1"),
                                  Log(Sub(ae11, <<"1">>), "N/A")>>)]),
     Reply([ifnet |-> Container(<<Log(Sub(ae1, <<"1">>), "10.0.1.1"),
                                  Log(Sub(ae1, <<"2">>), "N/A")>>)])}

\* show interface <name>: the detail, or a timeout
AgainDetailNets == DetailNets \cup {[transport |-> "ConnectTimeout"]}

(***************************************************************************)
(* Specifications                                                          *)
(***************************************************************************)
\* XmlApi(host, token) and Interfaces(host, token) constructed, nothing called
Init ==
    /\ call = [fn |-> "none"]
    /\ ret = Return(NoneVal)
    /\ pc = "start"
    /\ hardware_int = NoneVal
    /\ logical_int = NoneVal
    /\ config = NoneVal
    /\ int_config = NoneVal
    /\ log_int = NoneVal
    /\ raw_data = NoneVal
    /\ descriptions = NoneVal
    /\ int_list = NoneVal
    /\ exc = ""
    /\ sent = <<>>

NextClient == CallXpathToXml \/ CallCheckResponse \/ CallGetConfig \/ CallOp

Next == Build(HardwareNets, LogicalNets, ConfigNets, DetailNets)

\* one call of interface_info against an appliance that answers every fetch
Spec == Init /\ [][Next]_vars

NextConfig ==
    Build(CategoryHardwareNets, SubinterfaceLogicalNets, AnyConfigNets, DetailNets)

\* one call of interface_info against configurations of every shape
SpecConfig == Init /\ [][NextConfig]_vars

NextFaults ==
    Build(FaultHardwareNets, FaultLogicalNets, FaultConfigNets, FaultDetailNets)

\* one call of interface_info against an appliance whose fetches may fail
SpecFaults == Init /\ [][NextFaults]_vars

NextAgain ==
    \/ Build(AgainHardwareNets, AgainLogicalNets, ConfigNets, AgainDetailNets)
    \/ InterfacesAgain

\* one entered Interfaces object on which interfaces() is called up to
\* MaxCalls times
SpecAgain == Init /\ [][NextAgain]_vars

NextNormalize == CallNormalize \/ CallNormalizeAgain

\* the normalizing statement alone, run once and then again on its result
SpecNormalize == Init /\ [][NextNormalize]_vars

\* the protocol client alone: one call on a constructed XmlApi object
SpecClient == Init /\ [][NextClient]_vars

(***************************************************************************)
(* Claims                                                                  *)
(***************************************************************************)

\* C1: neither get_config nor op lets a transport fault escape as a raised
\* exception: whenever requests.get raises, the call returns an error dict.
C1_TransportFaultNeverEscapes ==
    (call.fn \in {"get_config", "op"} /\ call.net.transport # "ok")
        => (ret.kind = "return" /\ "error" \in DOMAIN ret.value)

\* the command string the encoder contract describes, written from the
\* outermost tag inwards: <seg1> ... </seg1> around the rest
RECURSIVE Nested(_, _)
Nested(segs, argument) ==
    IF segs = <<>> THEN argument
    ELSE <<"<">> \o Head(segs) \o <<">">>
            \o Nested(Tail(segs), argument)
            \o <<"<", "/">> \o Head(segs) \o <<">">>

\* C2: for a command path seg1..segN (passed as '/seg1/.../segN') and an
\* optional argument, xpath_to_xml returns the opening tags in path order,
\* the raw argument, and the closing tags in reverse order; op sends exactly
\* that command, with the empty argument when none is given.
C2_EncoderNesting ==
    /\ (call.fn = "xpath_to_xml" /\ call.leading)
        => ret = Return(Nested(call.segs, call.argument))
    /\ (call.fn = "xpath_to_xml" /\ call.leading
            /\ call.segs = <<show, system, info>> /\ call.argument = <<>>)
        => ret.value = <<"<", "s", "h", "o", "w", ">",
                         "<", "s", "y", "s", "t", "e", "m", ">",
                         "<", "i", "n", "f", "o", ">",
                         "<", "/", "i", "n", "f", "o", ">",
                         "<", "/", "s", "y", "s", "t", "e", "m", ">",
                         "<", "/", "s", "h", "o", "w", ">">>
    /\ (call.fn = "xpath_to_xml" /\ call.leading
            /\ call.segs = <<show, interface>> /\ call.argument = ae1)
        => ret.value = <<"<", "s", "h", "o", "w", ">",
                         "<", "i", "n", "t", "e", "r", "f", "a", "c", "e", ">",
                         "a", "e", "1",
                         "<", "/", "i", "n", "t", "e", "r", "f", "a", "c", "e", ">",
                         "<", "/", "s", "h", "o", "w", ">">>
    /\ call.fn = "op"
        => ret.sent[1].cmd =
            Nested(call.segs, IF "arg" \in DOMAIN call.kwargs
                              THEN call.kwargs.arg ELSE <<>>)

\* C2 witness: a three-segment path whose first and last segments differ,
\* encoded with an argument
C2_Witness ==
    /\ call.fn = "xpath_to_xml"
    /\ call.leading
    /\ Len(call.segs) = 3
    /\ call.segs[1] # call.segs[3]
    /\ <<>> \notin {call.segs[i] : i \in 1..3}
    /\ call.argument = ae1
    /\ ret.kind = "return"

(***************************************************************************)
(* The appliance's data, as the claims about a build refer to it           *)
(***************************************************************************)
\* the <entry> children a reply held under result/<key>, in document order
Entries(d, key) ==
    IF "response" \notin DOMAIN d THEN <<>>
    ELSE IF d.response.result[key] = NoneVal THEN <<>>
    ELSE d.response.result[key].entry.items

\* the physical interface list the appliance returned
PhysicalList == Entries(hardware_int, "hw")

\* the logical interface list the appliance returned
LogicalList == Entries(logical_int, "ifnet")

\* the part of a name before its first '.', the whole name when it has none
RECURSIVE BeforeDot(_)
BeforeDot(name) ==
    IF name = <<>> \/ Head(name) = "." THEN <<>>
    ELSE <<Head(name)>> \o BeforeDot(Tail(name))

HasDot(name) == \E i \in 1..Len(name) : name[i] = "."

\* how many entries of a sequence carry the name under the given key
Count(seq, key, name) == Cardinality({i \in 1..Len(seq) : seq[i][key] = name})

\* the first position of a physical interface with the name, 0 when none
FirstPhysical(name) ==
    IF \E i \in 1..Len(PhysicalList) : PhysicalList[i].name = name
    THEN CHOOSE i \in 1..Len(PhysicalList) :
            /\ PhysicalList[i].name = name
            /\ \A j \in 1..(i - 1) : PhysicalList[j].name # name
    ELSE 0

\* C3: the topology holds one parent per entry of the physical list, in
\* the appliance's order, also when that list is one bare object: a build
\* over a one-entry physical list returns one parent.
C3_OneParentPerPhysicalEntry ==
    /\ pc = "done" =>
        /\ Len(int_list) = Len(PhysicalList)
        /\ \A i \in 1..Len(int_list) :
            /\ int_list[i].name = PhysicalList[i].name
            /\ int_list[i].mac = PhysicalList[i].mac
    /\ (pc \in {"done", "raised"} /\ log_int # NoneVal /\ log_int.shape = "list"
            /\ Len(PhysicalList) = 1)
        => (pc = "done" /\ Len(int_list) = 1)

\* C4: a logical interface whose name has a '.' and whose prefix before
\* the first '.' names a physical interface is a subinterface of the first
\* parent with exactly that name, once per occurrence in the logical list,
\* and of no other parent.
C4_SubinterfaceUnderFirstExactParent ==
    pc = "done" =>
        \A k \in 1..Len(LogicalList) :
            LET name == LogicalList[k].name
                first == FirstPhysical(BeforeDot(name))
            IN  (HasDot(name) /\ first # 0) =>
                    \A i \in 1..Len(int_list) :
                        Count(int_list[i].subinterfaces, "subinterface", name)
                            = IF i = first
                              THEN Count(LogicalList, "name", name)
                              ELSE 0

\* C4 witness: a returned topology over two physical interfaces of one name
\* in which a subinterface is attached
C4_Witness ==
    /\ pc = "done"
    /\ \E i, j \in 1..Len(PhysicalList) :
        i < j /\ PhysicalList[i].name = PhysicalList[j].name
    /\ \E i \in 1..Len(int_list) : int_list[i].subinterfaces # <<>>

\* the entries of a sequence of logical interfaces that are not unmatched
\* subinterfaces
RECURSIVE WithoutUnmatched(_)
WithoutUnmatched(logs) ==
    IF logs = <<>> THEN <<>>
    ELSE IF HasDot(Head(logs).name) /\ FirstPhysical(BeforeDot(Head(logs).name)) = 0
        THEN WithoutUnmatched(Tail(logs))
        ELSE <<Head(logs)>> \o WithoutUnmatched(Tail(logs))

\* the topology interfaces() computes from a physical list, a logical list
\* and a configuration
Topology(phys, logs, cfg) ==
    Format(AttachAll([i \in 1..Len(phys) |->
                        RawEntry(phys[i], logs, NoneVal,
                                 phy_description(phys[i], cfg).value)],
                     logs),
           sub_description(cfg).value)

\* the names that occur in a topology
NamesIn(topology) ==
    {topology[i].name : i \in 1..Len(topology)}
        \cup UNION {{topology[i].subinterfaces[k].subinterface :
                        k \in 1..Len(topology[i].subinterfaces)} :
                    i \in 1..Len(topology)}

\* C5: a logical interface with a '.' whose prefix names no physical
\* interface raises nothing and is dropped: its name is nowhere in the
\* topology, and the topology is the one built without such entries.
C5_UnmatchedSubinterfaceDropped ==
    LET unmatched == {k \in 1..Len(LogicalList) :
                        /\ HasDot(LogicalList[k].name)
                        /\ FirstPhysical(BeforeDot(LogicalList[k].name)) = 0}
    IN  /\ (pc = "raised" /\ log_int # NoneVal /\ log_int.shape = "list")
            => (phy_int.kind = "raise" \/ phy_int.value.shape # "list")
        /\ pc = "done" =>
            /\ \A k \in unmatched : LogicalList[k].name \notin NamesIn(int_list)
            /\ int_list = Topology(PhysicalList, WithoutUnmatched(LogicalList),
                                   int_config)

\* C5 witness: a build that returned a topology with a subinterface, over a
\* logical list that also held an unmatched subinterface
C5_Witness ==
    /\ pc = "done"
    /\ \E k \in 1..Len(LogicalList) :
        /\ HasDot(LogicalList[k].name)
        /\ FirstPhysical(BeforeDot(LogicalList[k].name)) = 0
    /\ \E i \in 1..Len(int_list) : int_list[i].subinterfaces # <<>>

\* the <entry> children of a configuration element, none when it is empty
Children(x) == IF x = NoneVal THEN <<>> ELSE x.entry.items

\* every unit of the configuration: ethernet and aggregate-ethernet layer2
\* and layer3 units, loopback, vlan and tunnel units
AllUnits(cfg) ==
    LET layered == Children(cfg.ethernet) \o Children(cfg.aggregate_ethernet)
        of(e, layer) ==
            IF layer \in DOMAIN e /\ "units" \in DOMAIN e[layer]
            THEN Children(e[layer].units) ELSE <<>>
        flat == Children(cfg.loopback.units) \o Children(cfg.vlan.units)
                    \o Children(cfg.tunnel.units)
    IN  {flat[i] : i \in 1..Len(flat)}
            \cup UNION {{of(layered[i], l)[k] : k \in 1..Len(of(layered[i], l))} :
                            i \in 1..Len(layered), l \in {"layer2", "layer3"}}

\* C6: every subinterface of the topology has a description, and it is the
\* comment of the configuration unit of exactly its name that has a comment.
C6_SubinterfaceDescriptionResolved ==
    pc = "done" =>
        \A i \in 1..Len(int_list) :
            \A k \in 1..Len(int_list[i].subinterfaces) :
                LET e == int_list[i].subinterfaces[k]
                    commented == {u \in AllUnits(int_config) :
                                    /\ u.name = e.subinterface
                                    /\ "comment" \in DOMAIN u}
                IN  /\ "description" \in DOMAIN e
                    /\ commented # {}
                        => e.description \in {u.comment : u \in commented}

\* the subtree the name-category dispatch of the claim selects: the first
\* of ethernet, loopback, tunnel, vlan, ae that occurs in the name
SelectedSubtree(name, cfg) ==
    IF Contains(name, ethernet) THEN Children(cfg.ethernet)
    ELSE IF Contains(name, loopback) THEN Children(cfg.loopback.units)
    ELSE IF Contains(name, tunnel) THEN Children(cfg.tunnel.units)
    ELSE IF Contains(name, vlan) THEN Children(cfg.vlan.units)
    ELSE IF Contains(name, ae) THEN Children(cfg.aggregate_ethernet)
    ELSE <<>>

\* the description the claim gives a parent
DispatchedDescription(name, cfg) ==
    LET items == SelectedSubtree(name, cfg)
        same == {i \in 1..Len(items) : items[i].name = name}
    IN  IF \E i \in same : "comment" \in DOMAIN items[i]
        THEN items[CHOOSE i \in same : "comment" \in DOMAIN items[i]].comment
        ELSE ""

\* C7: a parent's description is the comment of the entry of exactly its
\* name in the one subtree its name selects, "" when there is none, and
\* this is so for a subtree of several entries and for one of a single
\* bare entry alike.
C7_ParentDescriptionByDispatch ==
    /\ pc \in {"raw", "done"} =>
        \A i \in 1..Len(raw_data) :
            raw_data[i].description
                = DispatchedDescription(raw_data[i].phy.name, int_config)
    /\ (pc = "raised" /\ raw_data # NoneVal /\ Len(raw_data) < Len(PhysicalList))
        => Len(SelectedSubtree(PhysicalList[Len(raw_data) + 1].name, int_config)) # 1

\* C8: a parent is paired with the first logical entry of exactly its name;
\* later entries of that name and names that merely extend it are ignored;
\* with no such entry the parent has family "None" and no address.
C8_ParentPairedWithFirstExactLogical ==
    pc = "done" =>
        \A i \in 1..Len(int_list) :
            LET same == {k \in 1..Len(LogicalList) :
                            LogicalList[k].name = PhysicalList[i].name}
            IN  IF same = {}
                THEN /\ "log" \notin DOMAIN raw_data[i]
                     /\ int_list[i].family = "None"
                     /\ "address" \notin DOMAIN int_list[i]
                ELSE LET k == CHOOSE m \in same : \A n \in same : m <= n
                     IN  /\ raw_data[i].log = LogicalList[k]
                         /\ int_list[i].family # "None"
                         /\ "address" \in DOMAIN int_list[i]
                                => int_list[i].address = LogicalList[k].ip

\* C8 witness: a returned topology with a parent for which the logical list
\* holds two entries of exactly its name with different addresses
C8_Witness ==
    /\ pc = "done"
    /\ \E i \in 1..Len(int_list) :
        \E k, m \in 1..Len(LogicalList) :
            /\ k < m
            /\ LogicalList[k].name = int_list[i].name
            /\ LogicalList[m].name = int_list[i].name
            /\ LogicalList[k].ip # LogicalList[m].ip

\* C9: a parent whose matched logical entry has address "N/A" has family
\* "Ethernet" and no address; with any other address it has family "inet"
\* and that address.
C9_NoAddressMeansEthernet ==
    pc = "done" =>
        \A i \in 1..Len(int_list) :
            "log" \in DOMAIN raw_data[i] =>
                IF raw_data[i].log.ip = "N/A"
                THEN /\ int_list[i].family = "Ethernet"
                     /\ "address" \notin DOMAIN int_list[i]
                ELSE /\ int_list[i].family = "inet"
                     /\ "address" \in DOMAIN int_list[i]
                     /\ int_list[i].address = raw_data[i].log.ip

\* C9 witness: one parent matched to an "N/A" entry beside one matched to
\* an address
C9_Witness ==
    /\ pc = "done"
    /\ \E i, j \in 1..Len(int_list) :
        /\ "log" \in DOMAIN raw_data[i] /\ raw_data[i].log.ip = "N/A"
        /\ "log" \in DOMAIN raw_data[j] /\ raw_data[j].log.ip # "N/A"

\* C10: a parent whose physical state is "down" has speed "None" whatever
\* its raw speed; any other state leaves the raw speed unchanged.
C10_DownSpeedIsNone ==
    pc = "done" =>
        \A i \in 1..Len(int_list) :
            int_list[i].speed = IF PhysicalList[i].state = "down"
                                THEN "None"
                                ELSE PhysicalList[i].speed

\* C10 witness: a down parent with a raw speed beside a parent that is up
C10_Witness ==
    /\ pc = "done"
    /\ \E i, j \in 1..Len(int_list) :
        /\ PhysicalList[i].state = "down" /\ PhysicalList[i].speed # "None"
        /\ PhysicalList[j].state = "up"

\* the request of the detail fetch for one interface name
DetailRequest(name) == Request("op", Nested(<<show, interface>>, name))

\* the requests sent after the three top-level fetches
DetailRequests == SubSeq(sent, 4, Len(sent))

EmptyCounters ==
    [bps_in |-> "", bps_out |-> "", pps_in |-> "", pps_out |-> ""]

\* an error dict, as op and get_config return it
IsErrorResult(d) == "error" \in DOMAIN d

TopLevelErrors ==
    {d \in {hardware_int, logical_int, config} : IsErrorResult(d)}

\* C12: when one of the three top-level fetches (hardware list, logical
\* list, configuration) returned an error result, the caller receives that
\* error result: the build ends neither with a topology nor with an
\* exception raised in its place.
C12_TopLevelErrorReachesCaller ==
    TopLevelErrors # {} => pc \notin {"done", "raised"}

\* the status flag of a reply is 'error'
StatusIsError(r) == "status" \in DOMAIN r /\ r.status = "error"

\* the message the contract names for an error reply: the top-level one,
\* else the one nested under the result, else the synthesized text
ExpectedMessage(r) ==
    IF "msg" \in DOMAIN r THEN r.msg
    ELSE IF /\ "result" \in DOMAIN r
            /\ r.result # NoneVal
            /\ "msg" \in DOMAIN r.result
    THEN r.result.msg
    ELSE "Unknown error"

\* C13: check_response returns valid exactly when the status flag of the
\* reply is not 'error', and for an error reply the message it reports is
\* the top-level msg when present, else the msg nested under result when
\* present, else 'Unknown error'.
C13_ValidIffStatusNotError ==
    call.fn = "check_response" =>
        LET r == call.response.response
        IN  /\ ret.kind = "return"
            /\ ret.value = ~StatusIsError(r)
            /\ StatusIsError(r) =>
                    ret.printed[3] = "Error: " \o ExpectedMessage(r)

\* C14: check_response never raises, whatever the reply holds: also for an
\* error reply without a code, a result that is empty or has no msg, and
\* a reply without a status flag.
C14_ValidatorNeverRaises ==
    call.fn = "check_response" => ret.kind = "return"

\* the line the contract gives for the classification of a code
Classification(code) ==
    CASE code = "17" -> "Error code: 17 (Invalid command)"
      [] code = "16" -> "Error code: 16 (Unauthorized)"
      [] code = "22" -> "Error code: 22 (Session timed out)"
      [] code = "13" -> "Error code: 13 (Object not found)"
      [] OTHER -> "Unknown error code: " \o code

\* C15: the code of an error reply is classified through the fixed table,
\* a code the table lacks is reported as it is under a generic unknown-code
\* classification, and which code the reply carries changes neither whether
\* check_response returns nor what it returns.
C15_CodeClassified ==
    (/\ call.fn = "check_response"
     /\ StatusIsError(call.response.response)
     /\ "code" \in DOMAIN call.response.response) =>
        LET r == call.response.response
        IN  /\ ret.kind = "return" =>
                /\ ret.value = FALSE
                /\ ret.printed[2] = Classification(r.code)
            /\ \A c \in {"17", "16", "22", "13", "999"} :
                LET other == check_response([response |-> [r EXCEPT !.code = c]])
                IN  /\ other.kind = ret.kind
                    /\ ret.kind = "return" => other.value = ret.value

\* check_response was given an error reply whose code the table lacks
C15_Witness ==
    /\ call.fn = "check_response"
    /\ StatusIsError(call.response.response)
    /\ "code" \in DOMAIN call.response.response
    /\ call.response.response.code = "999"
    /\ ret.kind = "return"
    /\ ret.printed[2] = "Unknown error code: 999"

\* get_config or op was called and a reply arrived
ReplyArrived ==
    call.fn \in {"get_config", "op"} /\ call.net.transport = "ok"

\* a field of the returned dict, other than the command, holds v
Carries(d, v) == \E k \in DOMAIN d \ {"command"} : d[k] = v

\* C16: when the appliance answers get_config or op with status 'error'
\* (a reply check_response can read: it has a code), the value the call
\* returns is an error result that carries the reply's code and the
\* reply's message, so that the caller can tell which error occurred.
C16_RejectionCarriesCodeAndMessage ==
    (/\ ReplyArrived
     /\ call.net.wellformed
     /\ StatusIsError(call.net.doc.response)
     /\ check_response(call.net.doc).kind = "return") =>
        /\ ret.kind = "return"
        /\ IsErrorResult(ret.value)
        /\ Carries(ret.value, call.net.doc.response.code)
        /\ Carries(ret.value, ExpectedMessage(call.net.doc.response))

\* C17: when the body of the reply is not well-formed XML, get_config and
\* op return an error result; the parse failure is not raised.
C17_MalformedReplyIsErrorResult ==
    (ReplyArrived /\ ~call.net.wellformed) =>
        (ret.kind = "return" /\ IsErrorResult(ret.value))

\* C18: every error result get_config or op returns holds the command
\* string, or path, the call attempted.
C18_ErrorResultNamesCommand ==
    (/\ call.fn \in {"get_config", "op"}
     /\ ret.kind = "return"
     /\ IsErrorResult(ret.value)) =>
        /\ "command" \in DOMAIN ret.value
        /\ ret.value.command = ret.sent[1].cmd

\* the error text of op that stands for each kind of transport fault the
\* contract distinguishes: Timeout, ConnectionFailed, TransportError
FaultText(fault) ==
    IF fault \in {"ConnectTimeout", "ReadTimeout"}
    THEN "Timeout while connecting to device"
    ELSE IF fault \in {"ConnectionError", "SSLError"}
    THEN "Error connecting to device"
    ELSE "Error while connecting: " \o fault

\* C19: a transport fault of get_config or op is classified by its kind:
\* a timeout, while connecting or while waiting for the reply, as Timeout,
\* a refused or failed connection as ConnectionFailed, any other fault as
\* TransportError; a timeout is never reported as one of the other two.
C19_TransportFaultClassified ==
    (call.fn \in {"get_config", "op"} /\ call.net.transport # "ok") =>
        /\ ret.kind = "return"
        /\ IsErrorResult(ret.value)
        /\ ret.value.error = FaultText(call.net.transport)

\* the calls of op and get_config the build has made so far, read off the
\* position of the build and what it has stored
FetchesCalled ==
    CASE pc = "start" -> 0
      [] pc = "enter_logical" -> 1
      [] pc = "enter_config" -> 2
      [] pc = "entered" -> 3
      [] pc \in {"raw", "done"} -> 3 + Len(raw_data)
      [] pc = "raised" ->
            IF hardware_int = NoneVal THEN 1
            ELSE IF logical_int = NoneVal THEN 2
            ELSE IF raw_data = NoneVal THEN 3
            ELSE IF Len(raw_data) < Len(PhysicalList) THEN 3 + Len(raw_data) + 1
            ELSE 3 + Len(raw_data)

\* C20: the client never retries. Each call of get_config or op sends one
\* request whatever its outcome (a reply, a transport fault, a body that
\* does not parse, a rejected request), so the requests sent are as many as
\* the fetches called; and within one build no request is sent a second
\* time.
C20_NoRetry ==
    /\ Len(sent) = FetchesCalled
    /\ \A i, j \in 1..Len(sent) : i # j => sent[i] # sent[j]

\* a finished build of three parents in which every detail fetch failed
C20_Witness ==
    /\ pc = "done"
    /\ Len(raw_data) = 3
    /\ \A i \in 1..Len(raw_data) : IsErrorResult(raw_data[i].detail)
    /\ Len(sent) = 6

\* C21: normalization yields a sequence: one bare object becomes the
\* one-element sequence holding it, a sequence is returned with the same
\* elements in the same order, and normalizing the result again returns the
\* same sequence, not a sequence nested in a sequence.
C21_NormalizeWrapsAndIsIdempotent ==
    /\ (call.fn = "normalize" /\ call.x # NoneVal) =>
        /\ call.x.shape = "dict" => ret.value = <<call.x.items[1]>>
        /\ call.x.shape = "list" => ret.value = call.x.items
    /\ call.fn = "normalize_again" => ret.value = call.first

\* one bare object was normalized, and the result normalized again
C21_Witness ==
    /\ call.fn = "normalize_again"
    /\ call.x # NoneVal
    /\ call.x.shape = "dict"
    /\ ret.value = <<call.x.items[1]>>

\* C22: normalizing a null collection yields the empty sequence, over which
\* a consumer iterates zero times; it does not yield a one-element sequence
\* holding null.
C22_NullNormalizesToEmpty ==
    (call.fn = "normalize" /\ call.x = NoneVal) => ret.value = <<>>

\* the configuration was read and its vlan subtree has null units
VlanUnitsNull == int_config # NoneVal /\ int_config.vlan.units = NoneVal

\* every subtree of the configuration but vlan holds two or more entries
OtherSubtreesListed ==
    /\ int_config.ethernet # NoneVal
    /\ int_config.ethernet.entry.shape = "list"
    /\ int_config.loopback.units # NoneVal
    /\ int_config.loopback.units.entry.shape = "list"
    /\ int_config.tunnel.units # NoneVal
    /\ int_config.tunnel.units.entry.shape = "list"
    /\ int_config.aggregate_ethernet # NoneVal
    /\ int_config.aggregate_ethernet.entry.shape = "list"

\* C23: when the vlan subtree of the configuration has null units the build
\* behaves as with no vlan unit at all: the null raises nothing (the build
\* of a configuration whose other subtrees are lists is never aborted), no
\* collected subinterface description belongs to a vlan unit, and a parent
\* whose name holds 'vlan' has the empty description.
C23_NullVlanUnitsIsNoUnits ==
    VlanUnitsNull =>
        /\ OtherSubtreesListed => pc # "raised"
        /\ pc \in {"raw", "done"} =>
            \A i \in 1..Len(raw_data) :
                Contains(raw_data[i].phy.name, vlan) => raw_data[i].description = ""
        /\ pc = "done" =>
            \A k \in 1..Len(descriptions) : ~Contains(descriptions[k].name, vlan)

\* a finished build with null vlan units and a parent named vlan
C23_Witness ==
    /\ pc = "done"
    /\ VlanUnitsNull
    /\ \E i \in 1..Len(raw_data) :
        raw_data[i].phy.name = vlan /\ raw_data[i].description = ""

\* the position of the first c in s, 0 when s holds none
FirstIndex(s, c) ==
    IF \E i \in 1..Len(s) : s[i] = c
    THEN CHOOSE i \in 1..Len(s) : s[i] = c /\ \A j \in 1..(i - 1) : s[j] # c
    ELSE 0

\* the names of the tags a command string opens before anything else,
\* outermost first
RECURSIVE OpenedTags(_)
OpenedTags(s) ==
    IF Len(s) >= 2 /\ s[1] = "<" /\ s[2] # "/" /\ FirstIndex(s, ">") > 0
    THEN LET close == FirstIndex(s, ">")
         IN  <<SubSeq(s, 2, close - 1)>>
                \o OpenedTags(SubSeq(s, close + 1, Len(s)))
    ELSE <<>>

\* reading the tag nesting of a command string: the opened tags, and
\* whether what follows is text and then their closing tags, innermost
\* first
ReadNesting(s) ==
    LET tags == OpenedTags(s)
        rev == Reversed(tags)
        opening == Concat([i \in 1..Len(tags) |-> OpenTag(tags[i])])
        closing == Concat([i \in 1..Len(rev) |-> CloseTag(rev[i])])
        text == SubSeq(s, Len(opening) + 1, Len(s) - Len(closing))
    IN  [segs |-> tags,
         nested |-> /\ Len(s) >= Len(opening) + Len(closing)
                    /\ SubSeq(s, Len(s) - Len(closing) + 1, Len(s)) = closing
                    /\ FirstIndex(text, "<") = 0]

\* a command path whose segments are all non-empty
NonEmptySegments(segs) == \A i \in 1..Len(segs) : segs[i] # <<>>

\* C24: for a command path of non-empty, slash-free segments, passed as
\* '/seg1/.../segN' with no argument or an XML-safe argument, reading
\* the tag nesting of the encoded string from the outermost tag inwards
\* recovers the segment list: same segments, same order, same length.
C24_EncoderRoundTrip ==
    (/\ call.fn = "xpath_to_xml"
     /\ call.leading
     /\ NonEmptySegments(call.segs)
     /\ FirstIndex(call.argument, "<") = 0) =>
        ReadNesting(ret.value) = [segs |-> call.segs, nested |-> TRUE]

\* three different segments and an argument were encoded and read back
C24_Witness ==
    /\ call.fn = "xpath_to_xml"
    /\ call.leading
    /\ call.segs = <<show, system, info>>
    /\ call.argument = ae1
    /\ ReadNesting(ret.value).segs = <<show, system, info>>

\* C25: encoding a command path fails with InvalidCommand when one of its
\* segments is the empty string, and in no other case; for such a path no
\* command string is produced and op sends no request.
C25_EmptySegmentRejected ==
    /\ (call.fn = "xpath_to_xml" /\ call.leading) =>
            IF NonEmptySegments(call.segs)
            THEN ret.kind = "return"
            ELSE ret = Raise("InvalidCommand")
    /\ (call.fn = "op" /\ ~NonEmptySegments(call.segs)) => ret.sent = <<>>

\* C26: every request get_config and op issue is sent with certificate
\* verification enabled, whatever the call is given and however it ends.
C26_AlwaysVerified ==
    call.fn \in {"get_config", "op"} =>
        /\ Len(ret.sent) >= 1
        /\ \A i \in 1..Len(ret.sent) : ret.sent[i].verify = TRUE

\* op was called with the keyword verify=False and sent a verified request
C26_Witness ==
    /\ call.fn = "op"
    /\ "verify" \in DOMAIN call.kwargs
    /\ call.kwargs.verify = FALSE
    /\ ret.sent[1].verify = TRUE

\* the requests of one build, in the order the contract gives: the
\* physical list, the logical list, the configuration, then one detail
\* fetch per entry of the physical list in the appliance's order
ExpectedRequests ==
    << Request("op", Nested(<<show, interface>>, hardware)),
       Request("op", Nested(<<show, interface>>, logical)),
       Request("config", ConfigXpath) >>
        \o [i \in 1..Len(PhysicalList) |-> DetailRequest(PhysicalList[i].name)]

\* C27: the fetches of one build are sequential and ordered. The requests
\* sent so far are always a leading part of: physical list, logical list,
\* configuration, then the details in physical-list order; the three
\* top-level fetches have returned before a detail fetch is sent; a detail
\* fetch is sent only when every earlier one has returned and been stored;
\* and the parents of the output are in that same order.
C27_FetchesSequentialAndOrdered ==
    /\ Len(sent) <= Len(ExpectedRequests)
    /\ sent = SubSeq(ExpectedRequests, 1, Len(sent))
    /\ Len(sent) > 3 =>
        /\ hardware_int # NoneVal
        /\ logical_int # NoneVal
        /\ config # NoneVal
        /\ pc \in {"raw", "done"} => Len(sent) - 3 = Len(raw_data)
    /\ pc = "done" =>
        /\ sent = ExpectedRequests
        /\ \A i \in 1..Len(int_list) :
            /\ int_list[i].name = PhysicalList[i].name
            /\ sent[3 + i] = DetailRequest(int_list[i].name)

\* a finished build of three parents, every fetch answered
C27_Witness ==
    /\ pc = "done"
    /\ Len(int_list) = 3
    /\ sent = ExpectedRequests
    /\ \A i \in 1..Len(raw_data) : ~IsErrorResult(raw_data[i].detail)

\* how often a request occurs among those sent
Occurrences(request) == Cardinality({i \in 1..Len(sent) : sent[i] = request})

\* more detail requests were sent than one call of interfaces() sends:
\* a later call on the same object is under way or has finished
LaterCall == pc \in {"raw", "done"} /\ Len(sent) > 3 + Len(PhysicalList)

\* the topology is the one computed from the appliance's answers alone, the
\* collected descriptions likewise, and the details of this call were
\* fetched by this call
FreshTopology ==
    pc = "done" =>
        /\ int_list = Topology(PhysicalList, LogicalList, int_config)
        /\ descriptions = sub_description(int_config).value
        /\ \A i \in 1..Len(raw_data) :
            sent[Len(sent) - Len(raw_data) + i] = DetailRequest(raw_data[i].phy.name)

\* C28: no state is carried across invocations. The topology a build
\* returns depends only on the appliance's answers, also when interfaces()
\* is called again on the same object: no subinterface or description of
\* an earlier call is accumulated, and no answer is served from a stored
\* copy instead of a fresh fetch, so a later call fetches the physical
\* list, the logical list and the configuration again.
C28_NoStateAcrossCalls ==
    /\ FreshTopology
    /\ LaterCall =>
        /\ Occurrences(ExpectedRequests[1]) >= 2
        /\ Occurrences(ExpectedRequests[2]) >= 2
        /\ Occurrences(ExpectedRequests[3]) >= 2

\* C28, amended: every call of interfaces() returns the topology computed
\* from the appliance's answers alone, without subinterfaces or
\* descriptions accumulated from an earlier call, and fetches its details
\* itself; a later call on the same object sends detail requests only and
\* works on the physical list, logical list and configuration that were
\* fetched once, when the object was entered.
C28_TopologyRebuiltListsReused ==
    /\ FreshTopology
    /\ \A k \in 1..3 : Occurrences(ExpectedRequests[k]) <= 1
    /\ pc = "done" =>
        \E calls \in 1..MaxCalls : Len(sent) = 3 + calls * Len(PhysicalList)

\* interfaces() returned a second time, for two parents one of which has
\* subinterfaces
C28_Witness ==
    /\ pc = "done"
    /\ Len(PhysicalList) = 2
    /\ Len(sent) = 3 + 2 * Len(PhysicalList)
    /\ \E i \in 1..Len(int_list) : Len(int_list[i].subinterfaces) = 2

\* C29: xpath_to_xml discards whatever precedes the first '/' of the path
\* string. A path written '/seg1/.../segN' has every segment encoded; the
\* same path written without the leading '/' loses seg1, and when it has
\* no '/' at all (one segment) the result is the argument with no tags.
C29_TextBeforeFirstSlashDiscarded ==
    call.fn = "xpath_to_xml" =>
        /\ call.leading => ret.value = Nested(call.segs, call.argument)
        /\ ~call.leading => ret.value = Nested(Tail(call.segs), call.argument)
        /\ (~call.leading /\ Len(call.segs) = 1) => ret.value = call.argument

\* 'show/system/info' was encoded: only system and info are in the result
C29_Witness ==
    /\ call.fn = "xpath_to_xml"
    /\ ~call.leading
    /\ call.segs = <<show, system, info>>
    /\ call.argument = <<>>
    /\ ret.value = Nested(<<system, info>>, <<>>)

\* an address is present exactly when the family is inet, and is never the
\* placeholder 'N/A'
AddressIffInet(e) ==
    /\ "address" \in DOMAIN e <=> e.family = "inet"
    /\ "address" \in DOMAIN e => e.address # "N/A"

\* C30: in every topology, each parent and each subinterface has an
\* address exactly when its family is 'inet'; a parent's family is 'inet',
\* 'Ethernet' or 'None', a subinterface's is 'inet' or 'Ethernet', and a
\* subinterface whose logical address is 'N/A' is 'Ethernet' without an
\* address.
C30_AddressIffInet ==
    pc = "done" =>
        \A i \in 1..Len(int_list) :
            /\ AddressIffInet(int_list[i])
            /\ int_list[i].family \in {"inet", "Ethernet", "None"}
            /\ Len(int_list[i].subinterfaces) =
                    IF "sub" \in DOMAIN raw_data[i] THEN Len(raw_data[i].sub) ELSE 0
            /\ \A k \in 1..Len(int_list[i].subinterfaces) :
                LET s == int_list[i].subinterfaces[k]
                IN  /\ AddressIffInet(s)
                    /\ s.family \in {"inet", "Ethernet"}
                    /\ raw_data[i].sub[k].ip = "N/A" => s.family = "Ethernet"

\* a topology with an inet parent that has an Ethernet subinterface
C30_Witness ==
    /\ pc = "done"
    /\ \E i \in 1..Len(int_list) :
        /\ int_list[i].family = "inet"
        /\ "address" \in DOMAIN int_list[i]
        /\ \E k \in 1..Len(int_list[i].subinterfaces) :
            /\ int_list[i].subinterfaces[k].family = "Ethernet"
            /\ "address" \notin DOMAIN int_list[i].subinterfaces[k]

====
